---- MODULE Spec2Model ----
(***************************************************************************)
(* Flexer OSINT: the device/session authorization logic of App (the auth   *)
(* callback, the profile subscription, approve/deny, logout, the render    *)
(* classification) and of AdminPanel (role, approval, session and delete   *)
(* handlers), over a shared profile store with one document per identity.  *)
(*                                                                         *)
(* Every await of the source is a suspension point: the profile read and   *)
(* the profile write of one login evaluation are two steps, and other      *)
(* clients may act between them.  Subscription callbacks are delivered     *)
(* asynchronously, so a client's copy of a profile may lag the store.      *)
(***************************************************************************)
EXTENDS Naturals, Sequences, FiniteSets

\* ------------------------------------------------------------------ bounds

\* Session ids ever generated by uuidv4 (ids are 1..MaxSid, 0 is "none").
MaxSid == 3

\* ------------------------------------------------------------ populations

\* Two identities: the bootstrap owner and one ordinary user.
Uids == {"o", "u"}
\* Browser tabs (one App instance each) and the installations they run in.
Tabs == {"t1", "t2", "t3"}
Devices == {"d1", "d2", "d3"}
Sids == 1..MaxSid
\* Date.now(): the specifications below read the clock at one instant.
Timestamps == {1}

ROOT_OWNER_EMAIL == "owner@flexer.io"
Email(uid) == IF uid = "o" THEN ROOT_OWNER_EMAIL ELSE "user@flexer.io"

\* navigator.userAgent is fixed per installation.
getDeviceName(d) == d

\* ------------------------------------------------------------------ types

\* null / absent pendingSessionMetadata
NullMeta == [sid |-> 0, deviceName |-> "", timestamp |-> 0]
SessionMetadata(s, d, ts) == [sid |-> s, deviceName |-> getDeviceName(d), timestamp |-> ts]

\* A missing document (userDoc.exists() is false) and the null local profile.
NoDoc ==
    [exists |-> FALSE, isAdmin |-> FALSE, isOwner |-> FALSE, isApproved |-> FALSE,
     lastSessionId |-> 0, authorizedSessions |-> <<>>,
     pendingSessionId |-> 0, pendingSessionMetadata |-> NullMeta]

\* What AdminPanel's handlers read of a row of its users list.
NoRow == [exists |-> FALSE, isOwner |-> FALSE, isAdmin |-> FALSE,
          isApproved |-> FALSE, pendingSessionId |-> 0]
Row(p) == IF p.exists
          THEN [exists |-> TRUE, isOwner |-> p.isOwner, isAdmin |-> p.isAdmin,
                isApproved |-> p.isApproved, pendingSessionId |-> p.pendingSessionId]
          ELSE NoRow
EmptyUsers == [x \in Uids |-> NoRow]

VARIABLES
    store,            \* Firestore users collection: uid -> document or NoDoc
    dev,              \* the installation each tab runs in (fixed)
    cred,             \* the account each installation's user signs in to (fixed)
    sid,              \* localStorage flexer_sid per installation, 0 if absent
    nextSid,          \* the next id uuidv4 returns
    auth,             \* Firebase auth state per installation: uid or ""
    user,             \* App state user: uid or ""
    profile,          \* App state profile: local copy or NoDoc (null)
    loading,          \* App state loading
    permissionError,  \* App state permissionError is set
    pc,               \* position of the tab's auth callback
    evalUid,          \* firebaseUser.uid captured by the running callback
    evalSid,          \* currentSid captured by the running callback
    sub,              \* uid whose document unsubscribeProfile listens to, or ""
    users,            \* AdminPanel state users, per tab
    mark              \* history: "superseded", "denied" or "revoked" for a session
                      \* id an installation holds that has been so since its last
                      \* login write, "" otherwise

vars == <<store, dev, cred, sid, nextSid, auth, user, profile, loading,
          permissionError, pc, evalUid, evalSid, sub, users, mark>>

\* --------------------------------------------------------- pure functions

SidsOf(sessions) == {sessions[i].sid : i \in 1..Len(sessions)}

isPrivileged(p) == p.isAdmin \/ p.isOwner

\* Faulty variant: a standard session is stale unless it is the authorized one.
isStaleLastOnly(p, s) ==
    IF ~isPrivileged(p)
    THEN p.lastSessionId # s
    ELSE s \notin SidsOf(p.authorizedSessions)

\* Faulty variant: a standard session listed in authorizedSessions is not stale.
isStaleUnlessListed(p, s) ==
    IF ~isPrivileged(p)
    THEN /\ p.lastSessionId # s /\ p.pendingSessionId # s
         /\ s \notin SidsOf(p.authorizedSessions)
    ELSE s \notin SidsOf(p.authorizedSessions)

\* Faulty variant: a privileged session is never stale.
isStaleStandardOnly(p, s) ==
    IF ~isPrivileged(p)
    THEN p.lastSessionId # s /\ p.pendingSessionId # s
    ELSE FALSE

\* part_002:173-175
isStale(p, s) ==
    IF ~isPrivileged(p)
    THEN p.lastSessionId # s /\ p.pendingSessionId # s
    ELSE s \notin SidsOf(p.authorizedSessions)

\* Faulty variant: the two pending screens left out of the render.
ClassifyNoPendingScreens(p, s) ==
    IF isStale(p, s) THEN "STALE" ELSE "AUTHORIZED"

\* The screen App renders for a non-null profile p and local session id s
\* (part_002:177-237).
Classify(p, s) ==
    IF isStale(p, s) THEN "STALE"
    ELSE IF ~isPrivileged(p) /\ p.pendingSessionId = s THEN "PENDING_SELF"
    ELSE IF ~isPrivileged(p) /\ p.pendingSessionId # 0 /\ p.lastSessionId = s
         THEN "PENDING_FOREIGN"
    ELSE "AUTHORIZED"

\* Faulty variant: the render without its permissionError screen.
ViewIgnoresError(c) ==
    IF loading[c] THEN "LOADING"
    ELSE IF user[c] = "" \/ ~profile[c].exists THEN "LOGIN"
    ELSE IF sid[dev[c]] = 0 THEN "STALE"
    ELSE Classify(profile[c], sid[dev[c]])

\* The screen of tab c (part_002:145-237).  With flexer_sid removed, the
\* render's getLocalSessionId (part_002:170) generates an id that no profile
\* holds.
View(c) ==
    IF loading[c] THEN "LOADING"
    ELSE IF permissionError[c] THEN "DENIED"
    ELSE IF user[c] = "" \/ ~profile[c].exists THEN "LOGIN"
    ELSE IF sid[dev[c]] = 0 THEN "STALE"
    ELSE Classify(profile[c], sid[dev[c]])

\* AdminPanel is mounted in tab c.
RendersAdmin(c) == View(c) = "AUTHORIZED" /\ profile[c].isAdmin

\* UserDashboard is mounted in tab c: under the security alert
\* (part_002:210-229), or as the last return (part_002:237), which an admin
\* reaches with isAdminView switched off.
RendersDashboard(c) == View(c) \in {"PENDING_FOREIGN", "AUTHORIZED"}

\* Faulty variant: the dashboard without its approval gate.
LookupFormUngated(c) == RendersDashboard(c)

\* The lookup form of UserDashboard (part_001:262) is rendered in tab c:
\* the dashboard returns the approval notice instead for an unapproved
\* profile (part_001:207-221).
LookupForm(c) == RendersDashboard(c) /\ profile[c].isApproved

\* Faulty variant: an element counts as present when its device name is.
arrayUnionByName(sessions, m) ==
    IF \E i \in 1..Len(sessions) : sessions[i].deviceName = m.deviceName THEN sessions
    ELSE Append(sessions, m)

\* arrayUnion: add the element unless an equal element is present.
arrayUnion(sessions, m) ==
    IF \E i \in 1..Len(sessions) : sessions[i] = m THEN sessions
    ELSE Append(sessions, m)

\* Faulty variant: the filter keeps the entry it should drop.
FilterOutOthers(sessions, x) == SelectSeq(sessions, LAMBDA m : m.sid = x)

\* authorizedSessions.filter(s => s.sid !== x)
FilterOut(sessions, x) == SelectSeq(sessions, LAMBDA m : m.sid # x)

\* Faulty variant: every new profile is created approved.
newProfileApproved(uid, s, d, ts) ==
    LET isOwner == Email(uid) = ROOT_OWNER_EMAIL IN
    [exists |-> TRUE, isAdmin |-> isOwner, isOwner |-> isOwner, isApproved |-> TRUE,
     lastSessionId |-> s,
     authorizedSessions |-> IF isOwner THEN <<SessionMetadata(s, d, ts)>> ELSE <<>>,
     pendingSessionId |-> 0, pendingSessionMetadata |-> NullMeta]

\* The document setDoc writes for a first login (part_002:48-63).
newProfile(uid, s, d, ts) ==
    LET isOwner == Email(uid) = ROOT_OWNER_EMAIL IN
    [exists |-> TRUE, isAdmin |-> isOwner, isOwner |-> isOwner, isApproved |-> isOwner,
     lastSessionId |-> s,
     authorizedSessions |-> IF isOwner THEN <<SessionMetadata(s, d, ts)>> ELSE <<>>,
     pendingSessionId |-> 0, pendingSessionMetadata |-> NullMeta]

\* The field update of a privileged login (part_002:78-80).
SessionFields(p, m) == [p EXCEPT !.authorizedSessions = arrayUnion(@, m)]

\* Faulty variant: the pending registration also takes the session over.
PendingFieldsTakeOver(p, m) ==
    [p EXCEPT !.pendingSessionId = m.sid, !.pendingSessionMetadata = m,
              !.lastSessionId = m.sid]

\* The field update of a standard login from another session (part_002:83-90).
PendingFields(p, m) ==
    [p EXCEPT !.pendingSessionId = m.sid, !.pendingSessionMetadata = m]

\* Faulty variant: a standard login does not register while another request
\* is pending.
DecideKeepFirstRequest(doc, s) ==
    IF ~doc.exists THEN "setDoc"
    ELSE IF isPrivileged(doc)
         THEN IF s \in SidsOf(doc.authorizedSessions) THEN "none" ELSE "arrayUnion"
    ELSE IF doc.lastSessionId # s /\ doc.pendingSessionId = 0 THEN "pending"
    ELSE "none"

\* Faulty variant: the decision without its privileged branch.
DecideNoPrivilegedBranch(doc, s) ==
    IF ~doc.exists THEN "setDoc"
    ELSE IF doc.lastSessionId # s THEN "pending"
    ELSE "none"

\* The callback's decision after getDoc (part_002:47-91): the write it goes on to.
Decide(doc, s) ==
    IF ~doc.exists THEN "setDoc"
    ELSE IF isPrivileged(doc)
         THEN IF s \in SidsOf(doc.authorizedSessions) THEN "none" ELSE "arrayUnion"
    ELSE IF doc.lastSessionId # s THEN "pending"
    ELSE "none"

\* ------------------------------------------------------------------- init

TypeOK ==
    /\ nextSid \in 1..(MaxSid + 1)
    /\ \A d \in Devices : sid[d] \in 0..MaxSid /\ auth[d] \in Uids \cup {""}
    /\ \A c \in Tabs : dev[c] \in Devices \cup {""}
    /\ \A c \in Tabs : pc[c] \in {"idle", "getDoc", "setDoc", "arrayUnion", "pending"}

\* The state once App has mounted and the first auth callback, with no user,
\* has run (part_002:109-114), for tabs opened in the installations devOf
\* whose users hold the credentials credOf; "" is a tab that is not open.
InitWith(devOf, credOf) ==
    /\ store = [x \in Uids |-> NoDoc]
    /\ dev = devOf
    /\ cred = credOf
    /\ sid = [d \in Devices |-> 0]
    /\ nextSid = 1
    /\ auth = [d \in Devices |-> ""]
    /\ user = [c \in Tabs |-> ""]
    /\ profile = [c \in Tabs |-> NoDoc]
    /\ loading = [c \in Tabs |-> FALSE]
    /\ permissionError = [c \in Tabs |-> FALSE]
    /\ pc = [c \in Tabs |-> "idle"]
    /\ evalUid = [c \in Tabs |-> ""]
    /\ evalSid = [c \in Tabs |-> 0]
    /\ sub = [c \in Tabs |-> ""]
    /\ users = [c \in Tabs |-> EmptyUsers]
    /\ mark = [s \in Sids |-> ""]

TwoTabs == [c \in Tabs |-> CASE c = "t1" -> "d1" [] c = "t2" -> "d2" [] OTHER -> ""]
\* Two tabs of one installation (they share localStorage) and a second installation.
SharedTabs == [c \in Tabs |-> CASE c = "t1" -> "d1" [] c = "t2" -> "d1" [] OTHER -> "d2"]

\* Two installations of the ordinary user.
Init == InitWith(TwoTabs, [d \in Devices |-> "u"])
\* One installation of the ordinary user, one of the owner.
InitAdmin == InitWith(TwoTabs, [d \in Devices |-> IF d = "d2" THEN "o" ELSE "u"])
\* Two installations of the owner.
InitOwner == InitWith(TwoTabs, [d \in Devices |-> "o"])
\* The ordinary user: two tabs of one installation and a second installation.
InitTabs == InitWith(SharedTabs, [d \in Devices |-> "u"])

OpenTabs == {c \in Tabs : dev[c] # ""}
UsedDevices == {dev[c] : c \in OpenTabs}

\* users is AdminPanel's state: it is dropped when the panel unmounts.
UsersAfter(cand) ==
    users' = [c \in Tabs |-> IF RendersAdmin(c)' THEN cand[c] ELSE EmptyUsers]

TabsOf(d) == {c \in Tabs : dev[c] = d}

\* ---------------------------------------------------------------- actions

\* Login / Register succeed on installation d: the auth state becomes the
\* account, and onAuthStateChanged's callback starts in each of its tabs
\* (part_002:36-45): loading, no error, currentSid read or generated.
SignIn(d) ==
    /\ auth[d] = ""
    /\ \A c \in TabsOf(d) : pc[c] = "idle" /\ View(c) = "LOGIN"
    /\ sid[d] # 0 \/ nextSid <= MaxSid
    /\ LET s == IF sid[d] # 0 THEN sid[d] ELSE nextSid IN
       /\ sid' = [sid EXCEPT ![d] = s]
       /\ nextSid' = IF sid[d] # 0 THEN nextSid ELSE nextSid + 1
       /\ auth' = [auth EXCEPT ![d] = cred[d]]
       /\ loading' = [c \in Tabs |-> IF dev[c] = d THEN TRUE ELSE loading[c]]
       /\ permissionError' = [c \in Tabs |-> IF dev[c] = d THEN FALSE ELSE permissionError[c]]
       /\ pc' = [c \in Tabs |-> IF dev[c] = d THEN "getDoc" ELSE pc[c]]
       /\ evalUid' = [c \in Tabs |-> IF dev[c] = d THEN cred[d] ELSE evalUid[c]]
       /\ evalSid' = [c \in Tabs |-> IF dev[c] = d THEN s ELSE evalSid[c]]
    /\ UNCHANGED <<store, dev, cred, user, profile, sub, mark>>
    /\ UsersAfter(users)

\* The rest of the callback once its last await has resolved
\* (part_002:94-104, 114): subscribe, setUser, setLoading(false).
Finish(c, prof) ==
    /\ sub' = [sub EXCEPT ![c] = evalUid[c]]
    /\ user' = [user EXCEPT ![c] = evalUid[c]]
    /\ profile' = [profile EXCEPT ![c] = prof]
    /\ loading' = [loading EXCEPT ![c] = FALSE]
    /\ pc' = [pc EXCEPT ![c] = "idle"]
    /\ evalUid' = [evalUid EXCEPT ![c] = ""]
    /\ evalSid' = [evalSid EXCEPT ![c] = 0]
    /\ UNCHANGED permissionError

\* Faulty variant: the catch block leaves the callback before
\* setLoading(false).
FailKeepsLoading(c) ==
    /\ permissionError' = [permissionError EXCEPT ![c] = TRUE]
    /\ pc' = [pc EXCEPT ![c] = "idle"]
    /\ evalUid' = [evalUid EXCEPT ![c] = ""]
    /\ evalSid' = [evalSid EXCEPT ![c] = 0]
    /\ UNCHANGED <<sub, user, profile, loading>>

\* The catch block (part_002:105-108, 114).
Fail(c) ==
    /\ permissionError' = [permissionError EXCEPT ![c] = TRUE]
    /\ loading' = [loading EXCEPT ![c] = FALSE]
    /\ pc' = [pc EXCEPT ![c] = "idle"]
    /\ evalUid' = [evalUid EXCEPT ![c] = ""]
    /\ evalSid' = [evalSid EXCEPT ![c] = 0]
    /\ UNCHANGED <<sub, user, profile>>

\* getDoc resolves (part_002:45): the callback decides; with nothing to write
\* it runs to its end.
EvalRead(c) ==
    /\ pc[c] = "getDoc"
    /\ LET w == Decide(store[evalUid[c]], evalSid[c]) IN
       IF w = "none"
       THEN Finish(c, profile[c])
       ELSE /\ pc' = [pc EXCEPT ![c] = w]
            /\ UNCHANGED <<sub, user, profile, loading, permissionError, evalUid, evalSid>>
    /\ UNCHANGED <<store, dev, cred, sid, nextSid, auth, mark>>
    /\ UsersAfter(users)

\* The callback's write commits and the callback runs to its end.  updateDoc
\* on a document deleted since the read throws into the catch block.
EvalWrite(c, ts) ==
    LET uid == evalUid[c]
        s == evalSid[c]
        m == SessionMetadata(s, dev[c], ts)
        doc == store[uid]
    IN
    /\ pc[c] \in {"setDoc", "arrayUnion", "pending"}
    /\ IF pc[c] = "setDoc"
       THEN /\ store' = [store EXCEPT ![uid] = newProfile(uid, s, dev[c], ts)]
            /\ mark' = [mark EXCEPT ![s] = ""]
            /\ Finish(c, newProfile(uid, s, dev[c], ts))
       ELSE IF ~doc.exists
       THEN /\ UNCHANGED <<store, mark>>
            /\ Fail(c)
       ELSE IF pc[c] = "arrayUnion"
       THEN /\ store' = [store EXCEPT ![uid] = SessionFields(@, m)]
            /\ mark' = [mark EXCEPT ![s] = ""]
            /\ Finish(c, profile[c])
       ELSE /\ store' = [store EXCEPT ![uid] = PendingFields(@, m)]
            /\ mark' = [mark EXCEPT ![s] = ""]
            /\ Finish(c, profile[c])
    /\ UNCHANGED <<dev, cred, sid, nextSid, auth>>
    /\ UsersAfter(users)

\* Faulty variant: the listener also delivers a deletion, as a null profile.
SnapshotDeliversDeletion(c) ==
    /\ sub[c] # ""
    /\ profile[c] # store[sub[c]]
    /\ profile' = [profile EXCEPT ![c] = store[sub[c]]]
    /\ UNCHANGED <<store, dev, cred, sid, nextSid, auth, user, loading,
                   permissionError, pc, evalUid, evalSid, sub, mark>>
    /\ UsersAfter(users)

\* onSnapshot's callback (part_002:94-97): a snapshot of a missing document
\* is ignored.
Snapshot(c) ==
    /\ sub[c] # ""
    /\ store[sub[c]].exists
    /\ profile[c] # store[sub[c]]
    /\ profile' = [profile EXCEPT ![c] = store[sub[c]]]
    /\ UNCHANGED <<store, dev, cred, sid, nextSid, auth, user, loading,
                   permissionError, pc, evalUid, evalSid, sub, mark>>
    /\ UsersAfter(users)

\* A tab is reloaded (the browser's reload, or RETRY at part_002:160): its
\* React state is rebuilt and onAuthStateChanged fires with the persisted
\* auth state; flexer_sid persists.
Reload(c) ==
    LET d == dev[c] IN
    /\ auth[d] # ""
    /\ sid[d] # 0
    /\ user' = [user EXCEPT ![c] = ""]
    /\ profile' = [profile EXCEPT ![c] = NoDoc]
    /\ sub' = [sub EXCEPT ![c] = ""]
    /\ permissionError' = [permissionError EXCEPT ![c] = FALSE]
    /\ loading' = [loading EXCEPT ![c] = TRUE]
    /\ pc' = [pc EXCEPT ![c] = "getDoc"]
    /\ evalUid' = [evalUid EXCEPT ![c] = auth[d]]
    /\ evalSid' = [evalSid EXCEPT ![c] = sid[d]]
    /\ UNCHANGED <<store, dev, cred, sid, nextSid, auth, mark>>
    /\ UsersAfter(users)

\* Faulty variant: logout keeps flexer_sid.
handleLogoutKeepsSid(c) ==
    LET d == dev[c] IN
    /\ View(c) \in {"STALE", "PENDING_SELF", "PENDING_FOREIGN", "AUTHORIZED"}
    /\ auth' = [auth EXCEPT ![d] = ""]
    /\ user' = [t \in Tabs |-> IF dev[t] = d THEN "" ELSE user[t]]
    /\ profile' = [t \in Tabs |-> IF dev[t] = d THEN NoDoc ELSE profile[t]]
    /\ sub' = [t \in Tabs |-> IF dev[t] = d THEN "" ELSE sub[t]]
    /\ loading' = [t \in Tabs |-> IF dev[t] = d THEN FALSE ELSE loading[t]]
    /\ permissionError' = [t \in Tabs |-> IF dev[t] = d THEN FALSE ELSE permissionError[t]]
    /\ UNCHANGED <<store, dev, cred, sid, nextSid, pc, evalUid, evalSid, mark>>
    /\ UsersAfter(users)

\* Faulty variant: a logout of the device awaiting verification withdraws its
\* request from the stored profile.
handleLogoutWithdraws(c) ==
    LET d == dev[c] IN
    /\ View(c) \in {"STALE", "PENDING_SELF", "PENDING_FOREIGN", "AUTHORIZED"}
    /\ auth' = [auth EXCEPT ![d] = ""]
    /\ sid' = [sid EXCEPT ![d] = 0]
    /\ user' = [t \in Tabs |-> IF dev[t] = d THEN "" ELSE user[t]]
    /\ profile' = [t \in Tabs |-> IF dev[t] = d THEN NoDoc ELSE profile[t]]
    /\ sub' = [t \in Tabs |-> IF dev[t] = d THEN "" ELSE sub[t]]
    /\ loading' = [t \in Tabs |-> IF dev[t] = d THEN FALSE ELSE loading[t]]
    /\ permissionError' = [t \in Tabs |-> IF dev[t] = d THEN FALSE ELSE permissionError[t]]
    /\ mark' = [x \in Sids |-> IF x = sid[d] THEN "" ELSE mark[x]]
    /\ store' = [x \in Uids |->
                    IF x = user[c] /\ store[x].exists /\ store[x].pendingSessionId = sid[d]
                    THEN [store[x] EXCEPT !.pendingSessionId = 0,
                                          !.pendingSessionMetadata = NullMeta]
                    ELSE store[x]]
    /\ UNCHANGED <<dev, cred, nextSid, pc, evalUid, evalSid>>
    /\ UsersAfter(users)

\* handleLogout (part_002:123-126) from a screen that offers it: signOut, whose
\* auth callback (part_002:109-114) clears user and profile and unsubscribes
\* in every tab of the installation, then flexer_sid is removed.
handleLogout(c) ==
    LET d == dev[c] IN
    /\ View(c) \in {"STALE", "PENDING_SELF", "PENDING_FOREIGN", "AUTHORIZED"}
    /\ auth' = [auth EXCEPT ![d] = ""]
    /\ sid' = [sid EXCEPT ![d] = 0]
    /\ user' = [t \in Tabs |-> IF dev[t] = d THEN "" ELSE user[t]]
    /\ profile' = [t \in Tabs |-> IF dev[t] = d THEN NoDoc ELSE profile[t]]
    /\ sub' = [t \in Tabs |-> IF dev[t] = d THEN "" ELSE sub[t]]
    /\ loading' = [t \in Tabs |-> IF dev[t] = d THEN FALSE ELSE loading[t]]
    /\ permissionError' = [t \in Tabs |-> IF dev[t] = d THEN FALSE ELSE permissionError[t]]
    /\ mark' = [x \in Sids |-> IF x = sid[d] THEN "" ELSE mark[x]]
    /\ UNCHANGED <<store, dev, cred, nextSid, pc, evalUid, evalSid>>
    /\ UsersAfter(users)

\* Faulty variant: approve leaves the pending request in place.
ApproveFieldsKeepPending(p, pendingId) ==
    [p EXCEPT !.lastSessionId = pendingId]

\* The field update of approve and of authorizeSession, applied to document p.
ApproveFields(p, pendingId) ==
    [p EXCEPT !.lastSessionId = pendingId,
              !.pendingSessionId = 0,
              !.pendingSessionMetadata = NullMeta]

\* Faulty variant: deny clears the request's id and keeps its metadata.
DenyFieldsKeepMetadata(p) ==
    [p EXCEPT !.pendingSessionId = 0]

\* The field update of deny.
DenyFields(p) ==
    [p EXCEPT !.pendingSessionId = 0, !.pendingSessionMetadata = NullMeta]

\* updateDoc by tab c on users/uid: it fails on a missing document; stored is
\* the document with the fields updated, and local is the tab's copy with the
\* same update, which the tab's own listener on that document sees at once.
TabUpdate(c, uid, stored, local) ==
    IF store[uid].exists
    THEN /\ store' = [store EXCEPT ![uid] = stored]
         /\ profile' = [profile EXCEPT ![c] =
                            IF sub[c] = uid /\ @.exists THEN local ELSE @]
    ELSE UNCHANGED <<store, profile>>

\* Some installation holds session id x.
Held(x) == \E d \in Devices : sid[d] = x

\* History: an approve write on users/uid makes pendingId the authorized
\* session and supersedes the one it replaces.
MarkApprove(uid, pendingId) ==
    mark' = IF ~store[uid].exists THEN mark
            ELSE [x \in Sids |->
                    IF x = pendingId THEN ""
                    ELSE IF x = store[uid].lastSessionId /\ Held(x) THEN "superseded"
                    ELSE mark[x]]

\* approvePendingSession (part_002:128-135), from the security alert's
\* AUTHORIZE button (part_002:210-222).
approvePendingSession(c) ==
    /\ View(c) = "PENDING_FOREIGN"
    /\ profile[c].pendingSessionId # 0
    /\ LET F(p) == ApproveFields(p, profile[c].pendingSessionId) IN
       TabUpdate(c, user[c], F(store[user[c]]), F(profile[c]))
    /\ MarkApprove(user[c], profile[c].pendingSessionId)
    /\ UNCHANGED <<dev, cred, sid, nextSid, auth, user, loading, permissionError,
                   pc, evalUid, evalSid, sub>>
    /\ UsersAfter(users)

\* denyPendingSession (part_002:137-143), from the alert's DENY button.
denyPendingSession(c) ==
    /\ View(c) = "PENDING_FOREIGN"
    /\ TabUpdate(c, user[c], DenyFields(store[user[c]]), DenyFields(profile[c]))
    /\ mark' = IF /\ store[user[c]].exists
                  /\ store[user[c]].pendingSessionId # 0
                  /\ Held(store[user[c]].pendingSessionId)
               THEN [mark EXCEPT ![store[user[c]].pendingSessionId] = "denied"]
               ELSE mark
    /\ UNCHANGED <<dev, cred, sid, nextSid, auth, user, loading, permissionError,
                   pc, evalUid, evalSid, sub>>
    /\ UsersAfter(users)

\* ------------------------------------------------------------- AdminPanel

AdminFrame ==
    UNCHANGED <<dev, cred, sid, nextSid, auth, user, loading, permissionError,
                pc, evalUid, evalSid, sub>>

\* The users-collection listener of AdminPanel (part_001:399-402).
UsersSnapshot(c) ==
    /\ RendersAdmin(c)
    /\ users[c] # [x \in Uids |-> Row(store[x])]
    /\ UNCHANGED <<store, profile, mark>>
    /\ AdminFrame
    /\ UsersAfter([users EXCEPT ![c] = [x \in Uids |-> Row(store[x])]])

\* The panel's own users list after its write has made row tgt the row r.
RowAfter(c, tgt, r) ==
    IF store[tgt].exists THEN [users EXCEPT ![c][tgt] = r] ELSE users

\* handleToggleApproval (part_001:412-414); the button is offered on the rows
\* of non-owners (part_001:548, 564).
handleToggleApproval(c, tgt) ==
    /\ RendersAdmin(c)
    /\ users[c][tgt].exists
    /\ ~users[c][tgt].isOwner
    /\ LET F(p) == [p EXCEPT !.isApproved = ~users[c][tgt].isApproved] IN
       /\ TabUpdate(c, tgt, F(store[tgt]), F(profile[c]))
       /\ UNCHANGED mark
       /\ AdminFrame
       /\ UsersAfter(RowAfter(c, tgt, F(users[c][tgt])))

\* Faulty variant: the admin toggle without its refusal for owner rows.
handleToggleAdminAnyTarget(c, tgt) ==
    /\ RendersAdmin(c)
    /\ users[c][tgt].exists
    /\ LET F(p) == [p EXCEPT !.isAdmin = ~users[c][tgt].isAdmin] IN
       IF ~profile[c].isOwner
       THEN UNCHANGED vars
       ELSE /\ TabUpdate(c, tgt, F(store[tgt]), F(profile[c]))
            /\ UNCHANGED mark
            /\ AdminFrame
            /\ UsersAfter(RowAfter(c, tgt, F(users[c][tgt])))

\* handleToggleAdmin (part_001:416-423).
handleToggleAdmin(c, tgt) ==
    /\ RendersAdmin(c)
    /\ users[c][tgt].exists
    /\ LET F(p) == [p EXCEPT !.isAdmin = ~users[c][tgt].isAdmin] IN
       IF ~profile[c].isOwner \/ users[c][tgt].isOwner
       THEN UNCHANGED vars
       ELSE /\ TabUpdate(c, tgt, F(store[tgt]), F(profile[c]))
            /\ UNCHANGED mark
            /\ AdminFrame
            /\ UsersAfter(RowAfter(c, tgt, F(users[c][tgt])))

\* Faulty variant: authorizeSession without its check for a pending request.
handleAuthorizeSessionUnchecked(c, tgt) ==
    /\ RendersAdmin(c)
    /\ users[c][tgt].exists
    /\ LET F(p) == ApproveFields(p, users[c][tgt].pendingSessionId)
           G(r) == [r EXCEPT !.pendingSessionId = 0]
       IN
       /\ TabUpdate(c, tgt, F(store[tgt]), F(profile[c]))
       /\ MarkApprove(tgt, users[c][tgt].pendingSessionId)
       /\ AdminFrame
       /\ UsersAfter(RowAfter(c, tgt, G(users[c][tgt])))

\* handleAuthorizeSession (part_001:425-432): GRANT ACCESS is offered on the
\* rows with a pending request (part_001:496, 602-605), and the handler
\* returns without a write for a row that has none.
handleAuthorizeSession(c, tgt) ==
    /\ RendersAdmin(c)
    /\ users[c][tgt].exists
    /\ LET F(p) == ApproveFields(p, users[c][tgt].pendingSessionId)
           G(r) == [r EXCEPT !.pendingSessionId = 0]
       IN
       IF users[c][tgt].pendingSessionId = 0
       THEN UNCHANGED vars
       ELSE /\ TabUpdate(c, tgt, F(store[tgt]), F(profile[c]))
            /\ MarkApprove(tgt, users[c][tgt].pendingSessionId)
            /\ AdminFrame
            /\ UsersAfter(RowAfter(c, tgt, G(users[c][tgt])))

\* Faulty variant: the revoke button on every entry, the current one included.
RevokeOfferedAnyEntry(c, s) ==
    /\ RendersAdmin(c)
    /\ s \in SidsOf(profile[c].authorizedSessions)

\* The devices tab renders the revoke button of entry s (part_001:618-628):
\* one per entry of the panel's profile, except the entry of currentSid.
RevokeOffered(c, s) ==
    /\ RendersAdmin(c)
    /\ s \in SidsOf(profile[c].authorizedSessions)
    /\ s # sid[dev[c]]

\* handleRevokeDevice (part_001:434-441), offered on the entries of the
\* caller's own profile other than the current one (part_001:618-627).
handleRevokeDevice(c, s) ==
    /\ RevokeOffered(c, s)
    /\ LET F(p) == [p EXCEPT !.authorizedSessions = FilterOut(profile[c].authorizedSessions, s)] IN
       /\ TabUpdate(c, user[c], F(store[user[c]]), F(profile[c]))
       /\ mark' = IF ~store[user[c]].exists THEN mark
                  ELSE [x \in Sids |->
                          IF /\ Held(x)
                             /\ x \in SidsOf(store[user[c]].authorizedSessions)
                             /\ x \notin SidsOf(F(store[user[c]]).authorizedSessions)
                          THEN "revoked" ELSE mark[x]]
       /\ AdminFrame
       /\ UsersAfter(users)

\* Faulty variant: delete without the owner check.
handleDeleteUserAnyRow(c, tgt) ==
    /\ RendersAdmin(c)
    /\ users[c][tgt].exists
    /\ store' = [store EXCEPT ![tgt] = NoDoc]
    /\ UNCHANGED <<profile, mark>>
    /\ AdminFrame
    /\ UsersAfter([users EXCEPT ![c][tgt] = NoRow])

\* handleDeleteUser (part_001:443-448), confirmed.
handleDeleteUser(c, tgt) ==
    /\ RendersAdmin(c)
    /\ users[c][tgt].exists
    /\ IF users[c][tgt].isOwner
       THEN UNCHANGED vars
       ELSE /\ store' = [store EXCEPT ![tgt] = NoDoc]
            /\ UNCHANGED <<profile, mark>>
            /\ AdminFrame
            /\ UsersAfter([users EXCEPT ![c][tgt] = NoRow])

\* App alone: login evaluations, subscription, logout, approve and deny.
Next ==
    \/ \E d \in UsedDevices : SignIn(d)
    \/ \E c \in OpenTabs : EvalRead(c)
    \/ \E c \in OpenTabs, ts \in Timestamps : EvalWrite(c, ts)
    \/ \E c \in OpenTabs : Snapshot(c)
    \/ \E c \in OpenTabs : Reload(c)
    \/ \E c \in OpenTabs : handleLogout(c)
    \/ \E c \in OpenTabs : approvePendingSession(c)
    \/ \E c \in OpenTabs : denyPendingSession(c)

\* The ordinary user and the owner, one installation each: the user's one
\* installation is never shown a request of another.
NextAdmin ==
    \/ \E d \in UsedDevices : SignIn(d)
    \/ \E c \in OpenTabs : EvalRead(c)
    \/ \E c \in OpenTabs, ts \in Timestamps : EvalWrite(c, ts)
    \/ \E c \in OpenTabs : Snapshot(c)
    \/ \E c \in OpenTabs : Reload(c)
    \/ \E c \in OpenTabs : handleLogout(c)
    \/ \E c \in OpenTabs : UsersSnapshot(c)
    \/ \E c \in OpenTabs, tgt \in Uids : handleToggleApproval(c, tgt)
    \/ \E c \in OpenTabs, tgt \in Uids : handleToggleAdmin(c, tgt)
    \/ \E c \in OpenTabs, tgt \in Uids : handleAuthorizeSession(c, tgt)
    \/ \E c \in OpenTabs, s \in Sids : handleRevokeDevice(c, s)
    \/ \E c \in OpenTabs, tgt \in Uids : handleDeleteUser(c, tgt)

\* The owner's account alone: no row offers approval or a pending request.
NextOwner ==
    \/ \E d \in UsedDevices : SignIn(d)
    \/ \E c \in OpenTabs : EvalRead(c)
    \/ \E c \in OpenTabs, ts \in Timestamps : EvalWrite(c, ts)
    \/ \E c \in OpenTabs : Snapshot(c)
    \/ \E c \in OpenTabs : Reload(c)
    \/ \E c \in OpenTabs : handleLogout(c)
    \/ \E c \in OpenTabs : UsersSnapshot(c)
    \/ \E c \in OpenTabs, tgt \in Uids : handleToggleAdmin(c, tgt)
    \/ \E c \in OpenTabs, s \in Sids : handleRevokeDevice(c, s)
    \/ \E c \in OpenTabs, tgt \in Uids : handleDeleteUser(c, tgt)

\* Two installations of the ordinary user.
Spec == Init /\ [][Next]_vars
\* The ordinary user and the owner, one installation each.
SpecAdmin == InitAdmin /\ [][NextAdmin]_vars
\* Two installations of the owner.
SpecOwner == InitOwner /\ [][NextOwner]_vars
\* The ordinary user in two tabs of one installation and in a second one.
SpecTabs == InitTabs /\ [][Next]_vars

\* Two values of Date.now() (part_002:52, 76, 88).
Instants == {1, 2}
\* Two tabs of one installation: they share localStorage, hence flexer_sid.
SameInstallation == [c \in Tabs |-> CASE c = "t1" -> "d1" [] c = "t2" -> "d1" [] OTHER -> ""]
\* The owner in two tabs of one installation.
InitSameSid == InitWith(SameInstallation, [d \in Devices |-> "o"])

\* The latest timestamp stored for uid; the installation's clock does not
\* run backwards.
Latest(uid) ==
    LET S == {store[uid].authorizedSessions[i].timestamp :
                  i \in 1..Len(store[uid].authorizedSessions)}
    IN IF S = {} THEN 0 ELSE CHOOSE y \in S : \A z \in S : y >= z

\* The owner's account in two tabs of one installation, with a clock.
NextSameSid ==
    \/ \E d \in UsedDevices : SignIn(d)
    \/ \E c \in OpenTabs : EvalRead(c)
    \/ \E c \in OpenTabs, ts \in Instants :
           pc[c] # "idle" /\ ts >= Latest(evalUid[c]) /\ EvalWrite(c, ts)
    \/ \E c \in OpenTabs : Snapshot(c)
    \/ \E c \in OpenTabs : Reload(c)
    \/ \E c \in OpenTabs : handleLogout(c)
    \/ \E c \in OpenTabs, s \in Sids : handleRevokeDevice(c, s)

\* The owner in two tabs of one installation.
SpecSameSid == InitSameSid /\ [][NextSameSid]_vars

\* Session lists of up to two entries with distinct session ids.
SessionLists ==
    UNION { { q \in [1..k -> {SessionMetadata(x, "d1", 1) : x \in Sids}] :
                  \A i, j \in 1..k : q[i].sid = q[j].sid => i = j } : k \in 0..2 }

\* The documents of identity uid that the render may be given (UserProfile,
\* types.ts:7-17): the role fields as creation and the admin toggle leave
\* them, any authorized and pending session ids.
UserProfiles(uid) ==
    { [exists |-> TRUE, isAdmin |-> adm, isOwner |-> Email(uid) = ROOT_OWNER_EMAIL,
       isApproved |-> apr, lastSessionId |-> last, authorizedSessions |-> ses,
       pendingSessionId |-> pend,
       pendingSessionMetadata |->
           IF pend = 0 THEN NullMeta ELSE SessionMetadata(pend, "d2", 1)] :
          adm \in {a \in BOOLEAN : Email(uid) = ROOT_OWNER_EMAIL => a},
          apr \in BOOLEAN, last \in Sids, pend \in 0..MaxSid,
          ses \in SessionLists }

\* One tab whose login callback has run to its end on an existing profile
\* (part_002:94-104, 114) and whose listener has not delivered yet: any
\* stored profile, any local session id.
InitRender ==
    \E uid \in Uids : \E p \in UserProfiles(uid), s \in Sids :
        /\ store = [x \in Uids |-> IF x = uid THEN p ELSE NoDoc]
        /\ dev = [c \in Tabs |-> IF c = "t1" THEN "d1" ELSE ""]
        /\ cred = [d \in Devices |-> uid]
        /\ sid = [d \in Devices |-> IF d = "d1" THEN s ELSE 0]
        /\ nextSid = MaxSid + 1
        /\ auth = [d \in Devices |-> IF d = "d1" THEN uid ELSE ""]
        /\ user = [c \in Tabs |-> IF c = "t1" THEN uid ELSE ""]
        /\ profile = [c \in Tabs |-> NoDoc]
        /\ loading = [c \in Tabs |-> FALSE]
        /\ permissionError = [c \in Tabs |-> FALSE]
        /\ pc = [c \in Tabs |-> "idle"]
        /\ evalUid = [c \in Tabs |-> ""]
        /\ evalSid = [c \in Tabs |-> 0]
        /\ sub = [c \in Tabs |-> IF c = "t1" THEN uid ELSE ""]
        /\ users = [c \in Tabs |-> EmptyUsers]
        /\ mark = [x \in Sids |-> ""]

\* The listener delivers the profile and App renders it.
NextRender == \E c \in OpenTabs : Snapshot(c)

\* The render of any profile for any local session id.
SpecRender == InitRender /\ [][NextRender]_vars

\* The awaited getDoc, setDoc or updateDoc of a login evaluation rejects
\* (network or permission failure): the catch block runs (part_002:105-108).
EvalFails(c) ==
    /\ pc[c] \in {"getDoc", "setDoc", "arrayUnion", "pending"}
    /\ Fail(c)
    /\ UNCHANGED <<store, dev, cred, sid, nextSid, auth, mark>>
    /\ UsersAfter(users)

\* onSnapshot's error callback with code permission-denied (part_002:98-102);
\* a listener that has reported an error delivers nothing further.
SnapshotDenied(c) ==
    /\ sub[c] # ""
    /\ permissionError' = [permissionError EXCEPT ![c] = TRUE]
    /\ sub' = [sub EXCEPT ![c] = ""]
    /\ UNCHANGED <<store, dev, cred, sid, nextSid, auth, user, profile, loading,
                   pc, evalUid, evalSid, mark>>
    /\ UsersAfter(users)

\* App alone, with failing Firestore operations.
NextDenied ==
    \/ \E d \in UsedDevices : SignIn(d)
    \/ \E c \in OpenTabs : EvalRead(c)
    \/ \E c \in OpenTabs, ts \in Timestamps : EvalWrite(c, ts)
    \/ \E c \in OpenTabs : EvalFails(c)
    \/ \E c \in OpenTabs : Snapshot(c)
    \/ \E c \in OpenTabs : SnapshotDenied(c)
    \/ \E c \in OpenTabs : Reload(c)
    \/ \E c \in OpenTabs : handleLogout(c)

\* The ordinary user in two tabs of one installation.
InitDenied == InitWith(SameInstallation, [d \in Devices |-> "u"])

\* The ordinary user in two tabs of one installation, with failing Firestore
\* operations.
SpecDenied == InitDenied /\ [][NextDenied]_vars

\* One installation whose user is signed out and holds a persisted session
\* id, against any stored profile of the account or none (part_002:20-27,
\* 36-45).
InitLabels ==
    \E uid \in Uids : \E p \in UserProfiles(uid) \cup {NoDoc}, s \in Sids :
        /\ store = [x \in Uids |-> IF x = uid THEN p ELSE NoDoc]
        /\ dev = [c \in Tabs |-> IF c = "t1" THEN "d1" ELSE ""]
        /\ cred = [d \in Devices |-> uid]
        /\ sid = [d \in Devices |-> IF d = "d1" THEN s ELSE 0]
        /\ nextSid = MaxSid + 1
        /\ auth = [d \in Devices |-> ""]
        /\ user = [c \in Tabs |-> ""]
        /\ profile = [c \in Tabs |-> NoDoc]
        /\ loading = [c \in Tabs |-> FALSE]
        /\ permissionError = [c \in Tabs |-> FALSE]
        /\ pc = [c \in Tabs |-> "idle"]
        /\ evalUid = [c \in Tabs |-> ""]
        /\ evalSid = [c \in Tabs |-> 0]
        /\ sub = [c \in Tabs |-> ""]
        /\ users = [c \in Tabs |-> EmptyUsers]
        /\ mark = [x \in Sids |-> ""]

NextLabels ==
    \/ \E d \in UsedDevices : SignIn(d)
    \/ \E c \in OpenTabs : EvalRead(c)
    \/ \E c \in OpenTabs, ts \in Timestamps : EvalWrite(c, ts)
    \/ \E c \in OpenTabs : Snapshot(c)
    \/ \E c \in OpenTabs : approvePendingSession(c)
    \/ \E c \in OpenTabs : denyPendingSession(c)
    \/ \E c \in OpenTabs, s \in Sids : handleRevokeDevice(c, s)

\* One login, and what the signed-in client then does, on any stored profile.
SpecLabels == InitLabels /\ [][NextLabels]_vars

\* The awaited getDoc, setDoc or updateDoc of tab c's login evaluation
\* settles: it resolves or it rejects.
Settle(c) ==
    /\ c \in OpenTabs
    /\ \/ EvalRead(c)
       \/ \E ts \in Timestamps : EvalWrite(c, ts)
       \/ EvalFails(c)

\* SpecDenied with every awaited Firestore operation settling eventually.
SpecDeniedFair == SpecDenied /\ \A c \in Tabs : WF_vars(Settle(c))

\* ------------------------------------------------------------------ claims

CurSid(c) == sid[dev[c]]
\* Tab c shows one of the four session screens.
SignedIn(c) == View(c) \in {"STALE", "PENDING_SELF", "PENDING_FOREIGN", "AUTHORIZED"}
\* Tab c's copy of its profile is the stored document.
Synced(c) == SignedIn(c) /\ profile[c] = store[user[c]]
Standard(p) == p.exists /\ ~isPrivileged(p)
\* Documents p and q agree on every field approve, deny and the pending
\* registration leave alone.
SameRoleFields(p, q) ==
    /\ p.exists = q.exists
    /\ p.isAdmin = q.isAdmin
    /\ p.isOwner = q.isOwner
    /\ p.isApproved = q.isApproved
    /\ p.authorizedSessions = q.authorizedSessions

\* C1 (as stated): of two tabs of one standard account that hold different
\* session ids, at most one shows the authorized screen, each judging from its
\* own copy of the profile.
C1_Original ==
    \A c1, c2 \in OpenTabs :
        ( /\ SignedIn(c1) /\ SignedIn(c2)
          /\ user[c1] = user[c2]
          /\ CurSid(c1) # CurSid(c2)
          /\ ~isPrivileged(profile[c1]) /\ ~isPrivileged(profile[c2]) )
        => ~(View(c1) = "AUTHORIZED" /\ View(c2) = "AUTHORIZED")

\* C1 (amended): of two tabs of one standard account that hold different
\* session ids and whose copies both equal the stored profile, at most one
\* shows the authorized screen.
C1_Amended ==
    \A c1, c2 \in OpenTabs :
        ( /\ Synced(c1) /\ Synced(c2)
          /\ user[c1] = user[c2]
          /\ CurSid(c1) # CurSid(c2)
          /\ Standard(store[user[c1]]) )
        => ~(View(c1) = "AUTHORIZED" /\ View(c2) = "AUTHORIZED")

\* Two up-to-date tabs of the standard account: the holder of lastSessionId on
\* the authorized screen, the other waiting for its approval.
C1_Witness ==
    \E c1, c2 \in OpenTabs :
        /\ Synced(c1) /\ Synced(c2)
        /\ user[c1] = user[c2]
        /\ CurSid(c1) # CurSid(c2)
        /\ Standard(store[user[c1]])
        /\ View(c1) = "AUTHORIZED"
        /\ store[user[c1]].lastSessionId = CurSid(c1)
        /\ View(c2) = "STALE"

Completes(c) == pc[c] # "idle" /\ pc'[c] = "idle" /\ ~permissionError'[c]

\* C3 (as stated): once approve has moved lastSessionId away from session A,
\* every login evaluation that A's client completes leaves A classified STALE
\* against the stored profile.
C3_Original ==
    [][ \A c \in OpenTabs :
          ( /\ Completes(c)
            /\ evalSid[c] # 0
            /\ mark[evalSid[c]] = "superseded"
            /\ Standard(store[evalUid[c]]) )
          => Classify(store'[evalUid[c]], evalSid[c]) = "STALE"
      ]_vars

\* C3 (amended): when approve moves lastSessionId from A to B, session A
\* classifies as STALE against the updated profile and the approving tab shows
\* the stale screen at once; a login evaluation that A's client completes
\* afterwards registers A as the pending session and A classifies as
\* PENDING_SELF, not STALE.
C3_Amended ==
    [][ \A c \in OpenTabs :
          /\ ( /\ approvePendingSession(c)
               /\ Standard(store[user[c]])
               /\ store[user[c]].lastSessionId = CurSid(c) )
             => /\ Classify(store'[user[c]], CurSid(c)) = "STALE"
                /\ View(c)' = "STALE"
          /\ ( /\ Completes(c)
               /\ evalSid[c] # 0
               /\ mark[evalSid[c]] = "superseded"
               /\ Standard(store[evalUid[c]]) )
             => /\ pc[c] = "pending"
                /\ store'[evalUid[c]].pendingSessionId = evalSid[c]
                /\ store'[evalUid[c]].lastSessionId = store[evalUid[c]].lastSessionId
                /\ Classify(store'[evalUid[c]], evalSid[c]) = "PENDING_SELF"
      ]_vars

\* The superseded session's client has reloaded and its login evaluation has
\* decided on the pending registration.
C3_Witness ==
    \E c \in OpenTabs :
        /\ pc[c] = "pending"
        /\ evalSid[c] # 0
        /\ mark[evalSid[c]] = "superseded"
        /\ Standard(store[evalUid[c]])
        /\ store[evalUid[c]].lastSessionId # evalSid[c]
        /\ store[evalUid[c]].pendingSessionId = 0

\* C4 (as stated): a client whose session id is the stored lastSessionId of a
\* standard profile, and whose copy of the profile is up to date, is never
\* shown the awaiting-verification screen or the stale screen.
C4_Original ==
    \A c \in OpenTabs :
        ( /\ Synced(c)
          /\ CurSid(c) # 0
          /\ Standard(store[user[c]])
          /\ store[user[c]].lastSessionId = CurSid(c) )
        => View(c) \notin {"PENDING_SELF", "STALE"}

C6_DenyEffect ==
    [][ \A c \in OpenTabs :
          ( denyPendingSession(c) /\ store[user[c]].exists )
          => LET p == store[user[c]]
                 q == store'[user[c]]
             IN /\ q.pendingSessionId = 0
                /\ q.pendingSessionMetadata = NullMeta
                /\ q.lastSessionId = p.lastSessionId
                /\ SameRoleFields(q, p)
                /\ Standard(p) => Classify(q, p.lastSessionId) = "AUTHORIZED"
                /\ p.pendingSessionId = 0 => store' = store
                /\ \A x \in Uids \ {user[c]} : store'[x] = store[x]
      ]_vars

\* A request has been denied: its session, still held, is stale against the
\* stored profile, and the up-to-date holder of lastSessionId is on the
\* authorized screen.
C6_Witness ==
    \E c \in OpenTabs, s \in Sids :
        /\ mark[s] = "denied"
        /\ Synced(c)
        /\ store[user[c]].pendingSessionId = 0
        /\ store[user[c]].pendingSessionMetadata = NullMeta
        /\ store[user[c]].lastSessionId = CurSid(c)
        /\ View(c) = "AUTHORIZED"
        /\ Classify(store[user[c]], s) = "STALE"

Privileged(p) == p.exists /\ isPrivileged(p)

\* C7: a login evaluation that reads a privileged profile never goes on to the
\* pending registration; with its session id absent from authorizedSessions
\* its write keeps the pending fields, appends one entry for that id, and the
\* id classifies as AUTHORIZED; with the id present it writes nothing.
C7_PrivilegedLogin ==
    [][ \A c \in OpenTabs :
          LET p == store[evalUid[c]]
              q == store'[evalUid[c]]
              n == Len(p.authorizedSessions)
          IN
          /\ ( EvalRead(c) /\ Privileged(p) )
             => /\ store' = store
                /\ pc'[c] = IF evalSid[c] \in SidsOf(p.authorizedSessions)
                            THEN "idle" ELSE "arrayUnion"
          /\ ( /\ \E ts \in Timestamps : EvalWrite(c, ts)
               /\ pc[c] = "arrayUnion"
               /\ Privileged(p)
               /\ evalSid[c] \notin SidsOf(p.authorizedSessions) )
             => /\ q.pendingSessionId = p.pendingSessionId
                /\ q.pendingSessionMetadata = p.pendingSessionMetadata
                /\ q.lastSessionId = p.lastSessionId
                /\ Len(q.authorizedSessions) = n + 1
                /\ SubSeq(q.authorizedSessions, 1, n) = p.authorizedSessions
                /\ q.authorizedSessions[n + 1].sid = evalSid[c]
                /\ q.authorizedSessions[n + 1].deviceName = getDeviceName(dev[c])
                /\ Classify(q, evalSid[c]) = "AUTHORIZED"
                /\ pc'[c] = "idle"
      ]_vars

\* A privileged account has signed in with a second session id: the id is the
\* newest entry of authorizedSessions, nothing is pending, and its up-to-date
\* client is on the authorized screen.
C7_Witness ==
    \E c \in OpenTabs :
        LET p == store[user[c]] IN
        /\ Synced(c)
        /\ Privileged(p)
        /\ Len(p.authorizedSessions) >= 2
        /\ p.authorizedSessions[Len(p.authorizedSessions)].sid = CurSid(c)
        /\ p.lastSessionId # CurSid(c)
        /\ p.pendingSessionId = 0
        /\ View(c) = "AUTHORIZED"

\* C8 (as stated): once revoke has removed session A's entry from a privileged
\* profile, every login evaluation that A's client completes leaves A
\* classified STALE against the stored profile.
C8_Original ==
    [][ \A c \in OpenTabs :
          ( /\ Completes(c)
            /\ evalSid[c] # 0
            /\ mark[evalSid[c]] = "revoked"
            /\ Privileged(store[evalUid[c]]) )
          => Classify(store'[evalUid[c]], evalSid[c]) = "STALE"
      ]_vars

\* C8 (amended): when revoke(A) commits on a privileged profile, the stored
\* authorizedSessions has no entry for A and A classifies as STALE against it;
\* a login evaluation that A's client completes afterwards leaves an entry for
\* A in authorizedSessions and A classifies as AUTHORIZED, not STALE.
C8_Amended ==
    [][ \A c \in OpenTabs :
          /\ \A s \in Sids :
               ( handleRevokeDevice(c, s) /\ Privileged(store[user[c]]) )
               => /\ s \notin SidsOf(store'[user[c]].authorizedSessions)
                  /\ Classify(store'[user[c]], s) = "STALE"
          /\ ( /\ Completes(c)
               /\ evalSid[c] # 0
               /\ mark[evalSid[c]] = "revoked"
               /\ Privileged(store[evalUid[c]]) )
             => /\ evalSid[c] \in SidsOf(store'[evalUid[c]].authorizedSessions)
                /\ Classify(store'[evalUid[c]], evalSid[c]) = "AUTHORIZED"
      ]_vars

\* The revoked session's client has reloaded and its login evaluation has
\* decided to add the session again.
C8_Witness ==
    \E c \in OpenTabs :
        /\ pc[c] = "arrayUnion"
        /\ evalSid[c] # 0
        /\ mark[evalSid[c]] = "revoked"
        /\ Privileged(store[evalUid[c]])
        /\ evalSid[c] \notin SidsOf(store[evalUid[c]].authorizedSessions)

\* C9: the setDoc of a login evaluation with session S for an identity without
\* a stored profile stores isOwner = isAdmin = isApproved = (email is the owner
\* email), lastSessionId = S, null pending fields, and authorizedSessions
\* holding one entry for S if owner and none otherwise.
C9_Creation ==
    [][ \A c \in OpenTabs, ts \in Timestamps :
          ( /\ EvalWrite(c, ts)
            /\ pc[c] = "setDoc"
            /\ ~store[evalUid[c]].exists )
          => LET q == store'[evalUid[c]]
                 owner == Email(evalUid[c]) = "owner@flexer.io"
             IN /\ q.exists
                /\ q.isOwner = owner
                /\ q.isAdmin = owner
                /\ q.isApproved = owner
                /\ q.lastSessionId = evalSid[c]
                /\ q.pendingSessionId = 0
                /\ q.pendingSessionMetadata = NullMeta
                /\ q.authorizedSessions =
                       IF owner
                       THEN << [sid |-> evalSid[c],
                                deviceName |-> getDeviceName(dev[c]),
                                timestamp |-> ts] >>
                       ELSE << >>
      ]_vars

\* Both kinds of profile have been created: the owner's with its one session
\* entry, the ordinary user's unapproved and without entries.
C9_Witness ==
    /\ store["o"].exists /\ store["o"].isOwner /\ store["o"].isAdmin
    /\ store["o"].isApproved
    /\ Len(store["o"].authorizedSessions) = 1
    /\ store["o"].authorizedSessions[1].sid = store["o"].lastSessionId
    /\ store["u"].exists /\ ~store["u"].isOwner /\ ~store["u"].isApproved
    /\ store["u"].authorizedSessions = << >>
    /\ store["u"].lastSessionId # 0
    /\ store["u"].pendingSessionId = 0

\* C10: no step removes a stored owner profile, changes its isOwner or clears
\* its isAdmin; toggle-admin and delete aimed at an owner's row write nothing.
C10_OwnerImmutable ==
    [][ /\ \A x \in Uids :
             ( store[x].exists /\ store[x].isOwner )
             => store'[x].exists /\ store'[x].isOwner /\ store'[x].isAdmin
        /\ \A c \in OpenTabs, tgt \in Uids :
             ( /\ handleToggleAdmin(c, tgt) \/ handleDeleteUser(c, tgt)
               /\ store[tgt].exists /\ store[tgt].isOwner )
             => store' = store
      ]_vars

\* The ordinary user, promoted to admin, has the admin panel open with the
\* owner's row in it.
C10_Witness ==
    \E c \in OpenTabs :
        /\ user[c] = "u"
        /\ RendersAdmin(c)
        /\ ~profile[c].isOwner
        /\ users[c]["o"].exists
        /\ users[c]["o"].isOwner
        /\ store["o"].exists /\ store["o"].isOwner /\ store["o"].isAdmin

\* C11 (as stated): every approve write that approvePendingSession commits on
\* a standard profile comes from a client whose session id is the stored
\* lastSessionId at the moment the write commits.
C11_Original ==
    [][ \A c \in OpenTabs :
          ( approvePendingSession(c) /\ Standard(store[user[c]]) )
          => store[user[c]].lastSessionId = CurSid(c)
      ]_vars

C13_Replaces ==
    [][ \A c \in OpenTabs :
          LET p == store[evalUid[c]]
              q == store'[evalUid[c]]
              C == evalSid[c]
          IN
          /\ ( /\ EvalRead(c)
               /\ Standard(p)
               /\ p.pendingSessionId # 0
               /\ C \notin {p.lastSessionId, p.pendingSessionId} )
             => pc'[c] = "pending" /\ store' = store
          /\ \A ts \in Timestamps :
               ( EvalWrite(c, ts) /\ pc[c] = "pending" /\ Standard(p) )
               => /\ q.pendingSessionId = C
                  /\ q.pendingSessionMetadata = SessionMetadata(C, dev[c], ts)
                  /\ q.lastSessionId = p.lastSessionId
                  /\ SameRoleFields(q, p)
                  /\ ( /\ p.pendingSessionId # 0
                       /\ p.pendingSessionId # p.lastSessionId
                       /\ C \notin {p.lastSessionId, p.pendingSessionId} )
                     => Classify(q, p.pendingSessionId) = "STALE"
      ]_vars

\* Session B, held by a client that is up to date and awaiting verification,
\* is the stored request; a login evaluation with a third session C has read
\* the profile and is about to write its own request.
C13_Witness ==
    \E c, b \in OpenTabs :
        LET p == store[evalUid[c]] IN
        /\ pc[c] = "pending"
        /\ Standard(p)
        /\ Synced(b) /\ user[b] = evalUid[c]
        /\ View(b) = "PENDING_SELF"
        /\ p.pendingSessionId = CurSid(b)
        /\ p.lastSessionId # CurSid(b)
        /\ evalSid[c] \notin {p.lastSessionId, p.pendingSessionId}

\* Tab c has reached the classification point of the render (part_002:170):
\* not loading, no permission error, user and profile present.
Classified(c) ==
    /\ c \in OpenTabs
    /\ ~loading[c] /\ ~permissionError[c]
    /\ user[c] # "" /\ profile[c].exists

\* Staleness of tab c as the claims word it: on a standard profile the
\* client's session id is neither lastSessionId nor pendingSessionId; on a
\* privileged profile it is the id of no authorizedSessions entry.
StaleClient(c) ==
    /\ Classified(c)
    /\ LET p == profile[c]
           s == CurSid(c)
       IN \/ s = 0
          \/ /\ ~p.isAdmin /\ ~p.isOwner
             /\ s # p.lastSessionId /\ s # p.pendingSessionId
          \/ /\ p.isAdmin \/ p.isOwner
             /\ \A i \in 1..Len(p.authorizedSessions) : p.authorizedSessions[i].sid # s

\* C14: a stale client is rendered the re-authentication screen and nothing
\* else: it is not given the dashboard, the admin panel or the approve/deny
\* prompt, so no step is an approve, a deny or an admin operation of that
\* client; and the step in which a client's listener delivers the snapshot
\* that makes it stale writes nothing to the store.
C14_StaleOnlyReauth ==
    [][ \A c \in OpenTabs :
          /\ StaleClient(c)
             => /\ View(c) = "STALE"
                /\ ~RendersAdmin(c)
                /\ ~approvePendingSession(c)
                /\ ~denyPendingSession(c)
                /\ \A tgt \in Uids :
                     /\ ~handleToggleApproval(c, tgt)
                     /\ ~handleToggleAdmin(c, tgt)
                     /\ ~handleAuthorizeSession(c, tgt)
                     /\ ~handleDeleteUser(c, tgt)
                /\ \A s \in Sids : ~handleRevokeDevice(c, s)
          /\ ( Snapshot(c) /\ ~StaleClient(c) /\ StaleClient(c)' )
             => store' = store
      ]_vars

\* A client of a standard profile, up to date with the store, whose session
\* id is neither the authorized nor the pending one.
C14_Witness ==
    \E c \in OpenTabs :
        /\ StaleClient(c) /\ Synced(c)
        /\ CurSid(c) # 0
        /\ Standard(profile[c])
        /\ CurSid(c) \notin {profile[c].lastSessionId, profile[c].pendingSessionId}

\* C15 (as stated): in every reachable state a standard profile has no
\* authorizedSessions entries and a privileged profile has no pending request
\* (pendingSessionId and pendingSessionMetadata null).
C15_Original ==
    \A uid \in Uids :
        LET p == store[uid] IN
        p.exists =>
            /\ ~isPrivileged(p) => p.authorizedSessions = << >>
            /\ isPrivileged(p)
               => p.pendingSessionId = 0 /\ p.pendingSessionMetadata = NullMeta

\* C16: every stored profile with isOwner = true also has isAdmin = true.
C16_OwnerIsAdmin ==
    \A uid \in Uids :
        (store[uid].exists /\ store[uid].isOwner) => store[uid].isAdmin

\* The owner's profile exists, the owner has the admin panel open with its
\* own row listed, and an admin toggle has acted: u has been promoted.
C16_Witness ==
    \E c \in OpenTabs :
        /\ user[c] = "o" /\ RendersAdmin(c)
        /\ store["o"].exists /\ store["o"].isOwner
        /\ users[c]["o"].exists /\ users[c]["o"].isOwner
        /\ store["u"].exists /\ store["u"].isAdmin

\* C17 (as stated): a privileged profile's authorizedSessions holds at most
\* one entry per session id.
C17_Original ==
    \A uid \in Uids :
        LET p == store[uid] IN
        ( p.exists /\ isPrivileged(p) )
        => \A i, j \in 1..Len(p.authorizedSessions) :
               p.authorizedSessions[i].sid = p.authorizedSessions[j].sid => i = j

\* C18 (as stated): when a login evaluation creates the profile, its client
\* is on the authorized screen as the evaluation completes, and a creating
\* client that is authorized against the stored profile stays authorized
\* across every step that is not an approve, a revoke or a role change; in
\* particular across the creation write of another device of the identity
\* that also read "no profile".
C18_Original ==
    [][ \A c \in OpenTabs, ts \in Timestamps :
          ( EvalWrite(c, ts) /\ pc[c] = "setDoc" )
          => /\ View(c)' = "AUTHORIZED"
             /\ Classify(store'[evalUid[c]], evalSid[c]) = "AUTHORIZED"
             /\ \A c2 \in OpenTabs :
                  ( /\ Synced(c2)
                    /\ user[c2] = evalUid[c]
                    /\ CurSid(c2) # 0
                    /\ store[user[c2]].lastSessionId = CurSid(c2)
                    /\ View(c2) = "AUTHORIZED" )
                  => Classify(store'[user[c2]], CurSid(c2)) = "AUTHORIZED"
      ]_vars

\* C19: for a rendered profile p and local session id s, the stale screen is
\* shown iff (p standard and s is neither lastSessionId nor pendingSessionId)
\* or (p privileged and s is the id of no authorizedSessions entry); exactly
\* one of the four screens is shown, and each of the other three is shown
\* under the condition its name states.
C19_Classification ==
    \A c \in OpenTabs :
        Classified(c) =>
            LET p == profile[c]
                s == CurSid(c)
                std == ~p.isAdmin /\ ~p.isOwner
                listed == \E i \in 1..Len(p.authorizedSessions) :
                              p.authorizedSessions[i].sid = s
                stale == \/ std /\ s # p.lastSessionId /\ s # p.pendingSessionId
                         \/ ~std /\ ~listed
                self == std /\ p.pendingSessionId = s
                foreign == /\ std /\ p.lastSessionId = s
                           /\ p.pendingSessionId # 0 /\ p.pendingSessionId # s
                authorized == \/ std /\ p.lastSessionId = s /\ p.pendingSessionId = 0
                              \/ ~std /\ listed
            IN /\ View(c) \in {"AUTHORIZED", "PENDING_SELF", "PENDING_FOREIGN", "STALE"}
               /\ (View(c) = "STALE") <=> stale
               /\ (View(c) = "STALE") <=> isStale(p, s)
               /\ (View(c) = "PENDING_SELF") <=> self
               /\ (View(c) = "PENDING_FOREIGN") <=> foreign
               /\ (View(c) = "AUTHORIZED") <=> authorized
               /\ ~(stale /\ self) /\ ~(stale /\ foreign) /\ ~(stale /\ authorized)
               /\ ~(self /\ foreign) /\ ~(self /\ authorized)
               /\ ~(foreign /\ authorized)
               /\ stale \/ self \/ foreign \/ authorized

\* A rendered standard profile whose lastSessionId and pendingSessionId are
\* both the local session id: the awaiting-verification screen is shown, not
\* the stale one.
C19_Witness ==
    \E c \in OpenTabs :
        /\ Classified(c)
        /\ Standard(profile[c])
        /\ profile[c].lastSessionId = CurSid(c)
        /\ profile[c].pendingSessionId = CurSid(c)
        /\ View(c) = "PENDING_SELF"

\* C20: the lookup form is rendered for a client only while its local copy of
\* the profile has isApproved = true and its session is the authorized one
\* (with or without a foreign request pending); a client that is unapproved,
\* awaiting its own approval, or stale is not given the form.
C20_LookupGate ==
    \A c \in OpenTabs :
        Classified(c) =>
            LET p == profile[c]
                s == CurSid(c)
                std == ~p.isAdmin /\ ~p.isOwner
                listed == \E i \in 1..Len(p.authorizedSessions) :
                              p.authorizedSessions[i].sid = s
                self == std /\ p.pendingSessionId = s
                holder == IF std THEN p.lastSessionId = s /\ ~self ELSE listed
            IN /\ LookupForm(c) => p.isApproved /\ holder /\ s # 0
               /\ ( ~p.isApproved \/ self \/ StaleClient(c) ) => ~LookupForm(c)

\* An approved standard client holding lastSessionId, with another session's
\* request pending: the lookup form is rendered under the security alert.
C20_Witness ==
    \E c \in OpenTabs :
        /\ Classified(c)
        /\ Standard(profile[c])
        /\ profile[c].isApproved
        /\ profile[c].lastSessionId = CurSid(c)
        /\ profile[c].pendingSessionId \notin {0, CurSid(c)}
        /\ View(c) = "PENDING_FOREIGN"
        /\ LookupForm(c)

\* C21 (as stated): a login evaluation with session S that reads a standard
\* profile with pendingSessionId = S and lastSessionId # S runs to its end
\* without issuing a write, and the stored profile is unchanged.
C21_Original ==
    [][ \A c \in OpenTabs :
          LET p == store[evalUid[c]] IN
          ( /\ EvalRead(c)
            /\ Standard(p)
            /\ evalSid[c] # 0
            /\ p.pendingSessionId = evalSid[c]
            /\ p.lastSessionId # evalSid[c] )
          => /\ pc'[c] = "idle"
             /\ store' = store
      ]_vars

\* C22 (as stated): a stored isAdmin value is changed, or lost with its
\* profile, only by a step of an actor whose profile has isOwner = true; a
\* toggle-admin by an actor with isOwner = false writes nothing.
C22_Original ==
    [][ /\ \A x \in Uids :
             ( /\ store[x].exists
               /\ ~(store'[x].exists /\ store'[x].isAdmin = store[x].isAdmin) )
             => \E c \in OpenTabs :
                    /\ profile[c].isOwner
                    /\ handleToggleAdmin(c, x) \/ handleDeleteUser(c, x)
        /\ \A c \in OpenTabs, tgt \in Uids :
             ( handleToggleAdmin(c, tgt) /\ ~profile[c].isOwner )
             => store' = store
      ]_vars

\* C23 (as stated): once the request of session B has been denied, no login
\* evaluation that B's client runs with the same session id stores B as
\* pendingSessionId again.
C23_Original ==
    [][ \A c \in OpenTabs, ts \in Timestamps :
          ( /\ EvalWrite(c, ts)
            /\ evalSid[c] # 0
            /\ mark[evalSid[c]] = "denied"
            /\ Standard(store[evalUid[c]]) )
          => store'[evalUid[c]].pendingSessionId # evalSid[c]
      ]_vars

\* C24 (as stated): a privileged client whose admin panel lists the entry of
\* its own current session is offered the revoke of that entry.
C24_Original ==
    \A c \in OpenTabs :
        ( /\ RendersAdmin(c)
          /\ CurSid(c) \in SidsOf(profile[c].authorizedSessions) )
        => RevokeOffered(c, CurSid(c))

\* C24 (amended): revoke is offered for every listed entry except that of the
\* caller's current session; a revoke never names the caller's session, it
\* removes the named session id from the stored authorizedSessions, and the
\* caller's own entry is still stored afterwards, so the caller classifies as
\* AUTHORIZED, not STALE.
C24_Amended ==
    [][ \A c \in OpenTabs, s \in Sids :
          /\ RevokeOffered(c, s)
             <=> ( /\ RendersAdmin(c)
                   /\ s \in SidsOf(profile[c].authorizedSessions)
                   /\ s # CurSid(c) )
          /\ ( handleRevokeDevice(c, s) /\ Privileged(store[user[c]]) )
             => /\ s # CurSid(c)
                /\ s \notin SidsOf(store'[user[c]].authorizedSessions)
                /\ CurSid(c) \in SidsOf(store'[user[c]].authorizedSessions)
                /\ Classify(store'[user[c]], CurSid(c)) = "AUTHORIZED"
      ]_vars

\* A privileged client has revoked another session, which is still held by
\* an installation: the caller's own entry is stored and the caller, up to
\* date, is on the authorized screen.
C24_Witness ==
    \E c \in OpenTabs, s \in Sids :
        /\ mark[s] = "revoked"
        /\ s # CurSid(c)
        /\ Synced(c) /\ RendersAdmin(c)
        /\ s \notin SidsOf(store[user[c]].authorizedSessions)
        /\ CurSid(c) \in SidsOf(store[user[c]].authorizedSessions)

\* C25 (as stated): a signed-in client whose profile listener has nothing
\* left to deliver holds a local copy equal to the stored state of the
\* profile it is subscribed to, a deleted profile included (null locally).
C25_Original ==
    \A c \in OpenTabs :
        ( /\ user[c] # "" /\ sub[c] # ""
          /\ pc[c] = "idle"
          /\ ~ENABLED Snapshot(c) )
        => profile[c] = store[sub[c]]

\* C26 (as stated): while an installation is signed out (its sign-out has
\* been processed and no new sign-in has happened), every tab of it has a null
\* user, a null profile and no active profile subscription.
C26_Original ==
    \A c \in OpenTabs :
        auth[dev[c]] = ""
        => /\ user[c] = ""
           /\ ~profile[c].exists
           /\ sub[c] = ""

\* C27 (as stated): a tab with permissionError set that is not loading keeps
\* the access-denied screen in every step other than its own reload.
C27_Original ==
    [][ \A c \in OpenTabs :
          ( permissionError[c] /\ ~loading[c] /\ ~Reload(c) )
          => permissionError'[c] /\ ~loading'[c]
      ]_vars

\* C27 (amended): a failed read, create or update of a login evaluation and a
\* permission-denied report of the profile listener set permissionError; a tab
\* with permissionError set that is not loading shows the access-denied screen
\* and neither dashboard, lookup form nor admin panel; and while the
\* installation's sign-in state does not change, the screen ends only by a
\* reload of the tab: no evaluation and no subscription is started before.
C27_Amended ==
    [][ \A c \in OpenTabs :
          /\ ( EvalFails(c) \/ SnapshotDenied(c) ) => permissionError'[c]
          /\ ( EvalFails(c) \/ (SnapshotDenied(c) /\ ~loading[c]) )
             => View(c)' = "DENIED"
          /\ ( permissionError[c] /\ ~loading[c] )
             => /\ View(c) = "DENIED"
                /\ ~RendersDashboard(c) /\ ~LookupForm(c) /\ ~RendersAdmin(c)
          /\ ( /\ permissionError[c] /\ ~loading[c]
               /\ auth'[dev[c]] = auth[dev[c]]
               /\ ~Reload(c) )
             => /\ permissionError'[c] /\ ~loading'[c]
                /\ pc[c] = "idle" => pc'[c] = "idle"
                /\ sub[c] = "" => sub'[c] = ""
      ]_vars

\* The listener of a signed-in client with a profile has reported
\* permission-denied: the tab shows the access-denied screen.
C27_Witness ==
    \E c \in OpenTabs :
        /\ permissionError[c] /\ ~loading[c]
        /\ user[c] # "" /\ profile[c].exists
        /\ sub[c] = ""
        /\ pc[c] = "idle"
        /\ View(c) = "DENIED"

\* The device labels a client may supply.
Labels == {"d1", "d2"}

\* The fields of a profile that authorization reads: everything but the
\* device labels, the timestamps and the multiplicity of the session entries.
AuthorizationFields(p) ==
    IF ~p.exists THEN <<>>
    ELSE <<p.isAdmin, p.isOwner, p.isApproved, p.lastSessionId, p.pendingSessionId,
           SidsOf(p.authorizedSessions)>>

\* The session lists a run with other labels holds in place of ses: the same
\* session ids under any labels, with or without a second entry of a listed
\* session id.
Relabelled(ses) ==
    LET same == { [i \in 1..Len(ses) |-> [ses[i] EXCEPT !.deviceName = f[i]]] :
                      f \in [1..Len(ses) -> Labels] }
    IN same \cup { Append(q, SessionMetadata(x, l, 1)) :
                       q \in same, x \in SidsOf(ses), l \in Labels }

\* The profiles a run with other labels holds in place of p.
RelabelledProfiles(p) ==
    IF ~p.exists THEN {p}
    ELSE { [p EXCEPT !.authorizedSessions = q,
                     !.pendingSessionMetadata =
                         IF p.pendingSessionId = 0 THEN @ ELSE [@ EXCEPT !.deviceName = l]] :
               q \in Relabelled(p.authorizedSessions), l \in Labels }

\* The document the write w of an evaluation leaves, for stored document q,
\* session s and label l.
EvalResult(w, q, uid, s, l, ts) ==
    IF w = "setDoc" THEN newProfile(uid, s, l, ts)
    ELSE IF ~q.exists THEN q
    ELSE IF w = "arrayUnion" THEN SessionFields(q, SessionMetadata(s, l, ts))
    ELSE PendingFields(q, SessionMetadata(s, l, ts))

\* C28: the device label does not influence authorization.  Against every
\* profile that differs from the one of this run only in device labels, and
\* for every label the client may supply: the render classifies the same, the
\* evaluation decides the same write, and the writes of the evaluation, of
\* approve, of deny and of revoke leave the same role fields, lastSessionId,
\* pendingSessionId and set of authorized session ids.
C28_LabelIndependence ==
    [][ \A c \in OpenTabs :
          /\ \A r \in RelabelledProfiles(profile[c]) :
                 /\ AuthorizationFields(r) = AuthorizationFields(profile[c])
                 /\ r.exists => Classify(r, CurSid(c)) = Classify(profile[c], CurSid(c))
          /\ EvalRead(c)
             => \A q \in RelabelledProfiles(store[evalUid[c]]) :
                    Decide(q, evalSid[c]) = Decide(store[evalUid[c]], evalSid[c])
          /\ \A ts \in Timestamps :
                 EvalWrite(c, ts)
                 => \A q \in RelabelledProfiles(store[evalUid[c]]), l \in Labels :
                        AuthorizationFields(
                            EvalResult(pc[c], q, evalUid[c], evalSid[c], l, ts))
                        = AuthorizationFields(store'[evalUid[c]])
          /\ approvePendingSession(c)
             => \A q \in RelabelledProfiles(store[user[c]]),
                   r \in RelabelledProfiles(profile[c]) :
                    q.exists
                    => AuthorizationFields(ApproveFields(q, r.pendingSessionId))
                       = AuthorizationFields(store'[user[c]])
          /\ denyPendingSession(c)
             => \A q \in RelabelledProfiles(store[user[c]]) :
                    q.exists
                    => AuthorizationFields(DenyFields(q))
                       = AuthorizationFields(store'[user[c]])
          /\ \A s \in Sids :
                 handleRevokeDevice(c, s)
                 => \A q \in RelabelledProfiles(store[user[c]]),
                       r \in RelabelledProfiles(profile[c]) :
                        q.exists
                        => AuthorizationFields(
                               [q EXCEPT !.authorizedSessions =
                                             FilterOut(r.authorizedSessions, s)])
                           = AuthorizationFields(store'[user[c]])
      ]_vars

\* An evaluation has added the client's session entry, under the client's
\* label, to a privileged profile that listed two other sessions.
C28_Witness ==
    \E c \in OpenTabs :
        /\ user[c] # "" /\ pc[c] = "idle"
        /\ isPrivileged(store[user[c]])
        /\ Len(store[user[c]].authorizedSessions) = 3
        /\ store[user[c]].authorizedSessions[3].sid = CurSid(c)
        /\ store[user[c]].authorizedSessions[3].deviceName = getDeviceName(dev[c])
        /\ profile[c] = store[user[c]]

\* C29: in every reachable state of a standard profile, a non-null
\* pendingSessionId differs from lastSessionId.
C29_Original ==
    \A x \in Uids :
        ( Standard(store[x]) /\ store[x].pendingSessionId # 0 )
        => store[x].pendingSessionId # store[x].lastSessionId

\* C30: immediately after an approve by the authorized device or an
\* authorizeSession by an admin commits, lastSessionId equals the
\* pendingSessionId the stored profile held just before that write.
C30_Original ==
    [][ \A c \in OpenTabs :
          /\ ( approvePendingSession(c) /\ store[user[c]].exists )
             => store'[user[c]].lastSessionId = store[user[c]].pendingSessionId
          /\ \A tgt \in Uids :
                 ( /\ handleAuthorizeSession(c, tgt)
                   /\ users[c][tgt].pendingSessionId # 0
                   /\ store[tgt].exists )
                 => store'[tgt].lastSessionId = store[tgt].pendingSessionId
      ]_vars

\* C31: a revoke of session id s removes from the stored authorizedSessions
\* exactly the entries of s and keeps every other stored entry.
C31_Original ==
    [][ \A c \in OpenTabs, s \in Sids :
          ( handleRevokeDevice(c, s) /\ store[user[c]].exists )
          => store'[user[c]].authorizedSessions
             = FilterOut(store[user[c]].authorizedSessions, s)
      ]_vars

\* C32: logout changes only client-local state (the installation's auth state
\* and stored session id) and never writes the stored profile; when the
\* device awaiting verification logs out, the pending fields stay, the
\* authorized device keeps its alert, and its approve of the withdrawn request
\* still commits.
C32_LogoutFrame ==
    [][ \A c \in OpenTabs :
          /\ handleLogout(c)
             => /\ store' = store
                /\ auth'[dev[c]] = "" /\ sid'[dev[c]] = 0
                /\ \A d \in Devices \ {dev[c]} : auth'[d] = auth[d] /\ sid'[d] = sid[d]
                /\ \A c2 \in OpenTabs :
                       ( /\ View(c) = "PENDING_SELF"
                         /\ user[c2] = user[c]
                         /\ View(c2) = "PENDING_FOREIGN"
                         /\ profile[c2].pendingSessionId = CurSid(c)
                         /\ store[user[c]].pendingSessionId = CurSid(c) )
                       => /\ View(c2)' = "PENDING_FOREIGN"
                          /\ store'[user[c]].pendingSessionId = CurSid(c)
                          /\ store'[user[c]].pendingSessionMetadata
                             = store[user[c]].pendingSessionMetadata
          /\ ( /\ approvePendingSession(c)
               /\ store[user[c]].exists
               /\ ~Held(profile[c].pendingSessionId) )
             => /\ store'[user[c]].lastSessionId = profile[c].pendingSessionId
                /\ store'[user[c]].pendingSessionId = 0
      ]_vars

\* The device awaiting verification has logged out: no installation holds the
\* stored pendingSessionId, and the authorized device shows the alert for it.
C32_Witness ==
    \E c \in OpenTabs :
        /\ View(c) = "PENDING_FOREIGN"
        /\ Synced(c)
        /\ store[user[c]].pendingSessionId # 0
        /\ ~Held(store[user[c]].pendingSessionId)
        /\ \E d \in UsedDevices : auth[d] = "" /\ sid[d] = 0 /\ cred[d] = user[c]

\* Installation d holds a session id generated after an earlier one of its
\* own: some smaller id was held by no other installation.
Relogged(d) ==
    /\ sid[d] # 0
    /\ \E s \in 1..(sid[d] - 1) :
           \A e \in UsedDevices \ {d} : sid[e] # 0 /\ sid[e] < s

\* Installation d of a non-owner account is authorized against the stored
\* profile.
AuthorizedDevice(d) ==
    /\ sid[d] # 0
    /\ store[cred[d]].exists /\ ~store[cred[d]].isOwner
    /\ Classify(store[cred[d]], sid[d]) \in {"AUTHORIZED", "PENDING_FOREIGN"}

\* C33 (as stated): on a standard account, the session id of an installation
\* that logged out and signed in again becomes lastSessionId only by an
\* authorizeSession.
C33_Original ==
    [][ \A d \in UsedDevices :
          ( /\ Relogged(d)'
            /\ ~(Standard(store[cred[d]]) /\ store[cred[d]].lastSessionId = sid[d])
            /\ Standard(store'[cred[d]]) /\ store'[cred[d]].lastSessionId = sid'[d] )
          => \E c \in OpenTabs : handleAuthorizeSession(c, cred[d])
      ]_vars

\* C33 (amended): the logout of the authorized device of a standard account
\* discards its session id and leaves lastSessionId; the next sign-in
\* evaluates with a new id different from lastSessionId; its pending write
\* registers that id, keeps lastSessionId and leaves the device PENDING_SELF;
\* and the device becomes authorized again only through the admin panel: by
\* authorizeSession, by a change of isAdmin, or by the device's login
\* evaluation creating the profile anew after a deletion or appending its
\* session after a promotion.
C33_Amended ==
    [][ /\ \A c \in OpenTabs :
             ( handleLogout(c) /\ Standard(store[user[c]])
               /\ store[user[c]].lastSessionId = CurSid(c) )
             => /\ sid'[dev[c]] = 0
                /\ store'[user[c]].lastSessionId = CurSid(c)
        /\ \A d \in UsedDevices :
             ( SignIn(d) /\ sid[d] = 0 /\ store[cred[d]].exists )
             => /\ sid'[d] # store[cred[d]].lastSessionId
                /\ \A c \in TabsOf(d) : evalSid'[c] = sid'[d]
        /\ \A c \in OpenTabs, ts \in Timestamps :
             ( EvalWrite(c, ts) /\ pc[c] = "pending" /\ store[evalUid[c]].exists )
             => /\ store'[evalUid[c]].pendingSessionId = evalSid[c]
                /\ store'[evalUid[c]].lastSessionId = store[evalUid[c]].lastSessionId
                /\ ( Standard(store'[evalUid[c]])
                     /\ ~Held(store[evalUid[c]].lastSessionId) )
                   => Classify(store'[evalUid[c]], evalSid[c]) = "PENDING_SELF"
        /\ \A d \in UsedDevices :
             ( Relogged(d)' /\ ~AuthorizedDevice(d) /\ AuthorizedDevice(d)' )
             => \/ \E c \in OpenTabs : handleAuthorizeSession(c, cred[d])
                \/ \E c \in OpenTabs : handleToggleAdmin(c, cred[d])
                \/ \E c \in TabsOf(d), ts \in Timestamps :
                       /\ EvalWrite(c, ts)
                       /\ \/ pc[c] = "setDoc" /\ ~store[cred[d]].exists
                          \/ pc[c] = "arrayUnion" /\ store[cred[d]].isAdmin
      ]_vars

\* The installation of a standard account has logged out and signed in
\* again: it is registered as pending under its new id, and lastSessionId is
\* an id no installation holds.
C33_Witness ==
    \E c \in OpenTabs :
        /\ Relogged(dev[c])
        /\ Synced(c)
        /\ Standard(store[user[c]])
        /\ View(c) = "PENDING_SELF"
        /\ store[user[c]].pendingSessionId = CurSid(c)
        /\ store[user[c]].lastSessionId # 0
        /\ ~Held(store[user[c]].lastSessionId)

\* C34: immediately after the owner's toggle-admin promotes a standard
\* profile, every installation signed in to that account is stale against the
\* stored profile, the one holding lastSessionId included.
C34_Original ==
    [][ \A c \in OpenTabs, tgt \in Uids :
          ( /\ handleToggleAdmin(c, tgt)
            /\ Standard(store[tgt])
            /\ store'[tgt].isAdmin )
          => \A d \in UsedDevices :
                 ( auth[d] = tgt /\ sid[d] # 0 ) => isStale(store'[tgt], sid[d])
      ]_vars

\* C35: when an admin's delete of a non-owner profile commits, every client of
\* that user keeps its local profile and its screen; while the document is
\* missing the listener delivers nothing; and a login evaluation that reads
\* no profile creates one with isAdmin = false, isApproved = false, the
\* evaluating session as lastSessionId and no pending request.
C35_Expunged ==
    [][ /\ \A c \in OpenTabs, tgt \in Uids :
             ( handleDeleteUser(c, tgt) /\ store[tgt].exists /\ ~store'[tgt].exists )
             => /\ ~store[tgt].isOwner
                /\ \A c2 \in OpenTabs :
                       user[c2] = tgt
                       => /\ profile'[c2] = profile[c2]
                          /\ user'[c2] = tgt /\ sub'[c2] = sub[c2]
                          /\ View(c2)' = View(c2)
        /\ \A c2 \in OpenTabs :
             ( sub[c2] # "" /\ ~store[sub[c2]].exists /\ auth'[dev[c2]] = auth[dev[c2]]
               /\ pc[c2] = "idle" /\ ~Reload(c2) )
             => profile'[c2] = profile[c2]
        /\ \A c \in OpenTabs :
             ( EvalRead(c) /\ ~store[evalUid[c]].exists ) => pc'[c] = "setDoc"
        /\ \A c \in OpenTabs, ts \in Timestamps :
             ( /\ EvalWrite(c, ts) /\ pc[c] = "setDoc"
               /\ Email(evalUid[c]) # ROOT_OWNER_EMAIL )
             => LET p == store'[evalUid[c]] IN
                /\ p.exists /\ ~p.isAdmin /\ ~p.isOwner /\ ~p.isApproved
                /\ p.lastSessionId = evalSid[c]
                /\ p.pendingSessionId = 0 /\ p.pendingSessionMetadata = NullMeta
                /\ p.authorizedSessions = << >>
      ]_vars

\* The profile of a signed-in user has been deleted: the document is missing
\* and the user's client still shows a session screen from its local copy,
\* with nothing left for its listener to deliver.
C35_Witness ==
    \E c \in OpenTabs :
        /\ user[c] # "" /\ sub[c] = user[c]
        /\ ~store[user[c]].exists
        /\ profile[c].exists
        /\ pc[c] = "idle"
        /\ View(c) \in {"AUTHORIZED", "PENDING_SELF"}
        /\ ~ENABLED Snapshot(c)

\* C36: every login evaluation terminates and writes at most once.  Each
\* awaited operation either ends the evaluation or moves it from its read
\* to its one write; a write or a failure ends it with the loading flag
\* cleared; the stored profiles change only in an evaluation's final step;
\* and in every behaviour each tab's loading flag is cleared again and again
\* unless the tab is reloaded again and again.
C36_Terminates ==
    /\ [][ /\ \A c \in OpenTabs :
                /\ EvalRead(c)
                   => /\ store' = store
                      /\ pc'[c] \in {"idle", "setDoc", "arrayUnion", "pending"}
                      /\ pc'[c] = "idle" => ~loading'[c]
                /\ EvalFails(c)
                   => store' = store /\ pc'[c] = "idle" /\ ~loading'[c]
                /\ \A ts \in Timestamps :
                       EvalWrite(c, ts) => pc'[c] = "idle" /\ ~loading'[c]
           /\ store' # store
              => \E c \in OpenTabs, ts \in Timestamps :
                     /\ EvalWrite(c, ts)
                     /\ \A x \in Uids : x # evalUid[c] => store'[x] = store[x]
         ]_vars
    /\ \A c \in Tabs : ([]<>(~loading[c])) \/ ([]<><<c \in OpenTabs /\ Reload(c)>>_vars)

\* An evaluation has failed after another tab's evaluation created the
\* profile: the failed tab shows the error and is not loading.
C36_Witness ==
    \E c \in OpenTabs :
        /\ permissionError[c] /\ ~loading[c] /\ pc[c] = "idle"
        /\ store["u"].exists
        /\ user[c] = ""

====
